---------------------------- MODULE Spec2Model ----------------------------
(***************************************************************************)
(* Model of the Bresser 6-in-1 USB driver (bin/weewx/drivers/bresser.py):  *)
(* construction (__init__), openPort / closePort / _find_device, setTime,  *)
(* the generator genLoopPackets, read_usb_dataset and read_usb_block.      *)
(*                                                                         *)
(* Host time is counted in ticks, Res ticks to the second, from            *)
(* 2019-06-18 23:33:00 local time.  time.time() and datetime.now() read    *)
(* the same clock, `now`.  Bytes and characters are the integers 0..255.   *)
(***************************************************************************)
EXTENDS Integers, Sequences, FiniteSets, TLC

(***************************************************************************)
(* Bounds of the model.                                                    *)
(***************************************************************************)
Res == 4                \* clock ticks per second
MaxTime == 40           \* horizon of Spec, in seconds after construction starts
MaxFinds == 2           \* discovery attempts that find nothing, per openPort call
MaxTimeIdeal == 170     \* horizon of SpecIdeal, in seconds after construction starts
MaxBlocks == 3          \* longest block stream SpecReasm draws

(***************************************************************************)
(* Program constants.                                                      *)
(***************************************************************************)
usb_read_size == 64
loop_interval == 15
openport_interval == 15
StartCode == 49         \* 0x31
MidCode == 50           \* 0x32
EndCode == 51           \* 0x33
DriftHigh == 70
DriftLow == 10
NFields == 32
PayloadAt == 7          \* index of the first payload byte of a block
CountAt == 5            \* index of the sequence code of a block
LenAt == 6              \* index of the declared payload length of a block

None == "None"

Min(a, b) == IF a < b THEN a ELSE b

(***************************************************************************)
(* Python list indexing and slicing on a 0-indexed list.                   *)
(***************************************************************************)
At(list, i) == list[i + 1]
Slice(list, lo, hi) == SubSeq(list, lo + 1, Min(hi, Len(list)))

(***************************************************************************)
(* str.split(): the maximal runs of non-whitespace characters.             *)
(***************************************************************************)
Whitespace == {9, 10, 11, 12, 13, 32}

\* the first index from i on that holds a blank (SkipToken) or none
\* (SkipBlank), Len(s) + 1 if there is none
SkipBlank(s, i) ==
    CHOOSE j \in i..(Len(s) + 1) :
        /\ \A k \in i..(j - 1) : s[k] \in Whitespace
        /\ j = Len(s) + 1 \/ s[j] \notin Whitespace

SkipToken(s, i) ==
    CHOOSE j \in i..(Len(s) + 1) :
        /\ \A k \in i..(j - 1) : s[k] \notin Whitespace
        /\ j = Len(s) + 1 \/ s[j] \in Whitespace

RECURSIVE SplitFrom(_, _)
SplitFrom(s, i) ==
    LET b == SkipBlank(s, i)
    IN  IF b > Len(s) THEN <<>>
        ELSE <<SubSeq(s, b, SkipToken(s, b) - 1)>> \o SplitFrom(s, SkipToken(s, b))

Split(s) == SplitFrom(s, 1)

(***************************************************************************)
(* datetime.strptime(ds_date + " " + ds_time, "%Y-%m-%d %H:%M").           *)
(* The two tokens hold no whitespace, so the single blank of the format    *)
(* matches the blank put between them: the date token must be Y-m-d and    *)
(* the time token H:M.  %Y is four digits, the other fields one or two.    *)
(* The result is [ok, days, secs]: the proleptic day number and the second *)
(* of the day, or ok = FALSE where strptime raises ValueError.             *)
(***************************************************************************)
IsDigit(c) == c \in 48..57

RECURSIVE FieldsFrom(_, _, _, _, _)
FieldsFrom(s, sep, i, cur, acc) ==
    IF i > Len(s) THEN Append(acc, cur)
    ELSE IF s[i] = sep THEN FieldsFrom(s, sep, i + 1, <<>>, Append(acc, cur))
         ELSE FieldsFrom(s, sep, i + 1, Append(cur, s[i]), acc)

Fields(s, sep) == FieldsFrom(s, sep, 1, <<>>, <<>>)

AllDigits(s) == \A i \in 1..Len(s) : IsDigit(s[i])

RECURSIVE NumVal(_)
NumVal(s) == IF s = <<>> THEN 0
             ELSE 10 * NumVal(SubSeq(s, 1, Len(s) - 1)) + (s[Len(s)] - 48)

IsNum(s, lo, hi) == Len(s) \in lo..hi /\ AllDigits(s)

IsLeap(y) == (y % 4 = 0 /\ y % 100 # 0) \/ y % 400 = 0

DaysInMonth(y, m) ==
    IF m = 2 THEN (IF IsLeap(y) THEN 29 ELSE 28)
    ELSE IF m \in {4, 6, 9, 11} THEN 30 ELSE 31

RECURSIVE DaysBeforeMonth(_, _)
DaysBeforeMonth(y, m) ==
    IF m = 1 THEN 0 ELSE DaysBeforeMonth(y, m - 1) + DaysInMonth(y, m - 1)

DayNumber(y, m, d) ==
    365 * (y - 1) + ((y - 1) \div 4) - ((y - 1) \div 100) + ((y - 1) \div 400)
        + DaysBeforeMonth(y, m) + d

BadTime == [ok |-> FALSE, days |-> 0, secs |-> 0]

StrpTime(ds_date, ds_time) ==
    LET dp == Fields(ds_date, 45)          \* "-"
        tp == Fields(ds_time, 58)          \* ":"
    IN  IF Len(dp) # 3 \/ Len(tp) # 2 THEN BadTime
        ELSE IF ~ (IsNum(dp[1], 4, 4) /\ IsNum(dp[2], 1, 2) /\ IsNum(dp[3], 1, 2)
                   /\ IsNum(tp[1], 1, 2) /\ IsNum(tp[2], 1, 2)) THEN BadTime
        ELSE LET y == NumVal(dp[1])
                 m == NumVal(dp[2])
                 d == NumVal(dp[3])
                 h == NumVal(tp[1])
                 mi == NumVal(tp[2])
             IN  IF y >= 1 /\ m \in 1..12 /\ d >= 1 /\ d <= DaysInMonth(y, m)
                    /\ h \in 0..23 /\ mi \in 0..59
                 THEN [ok |-> TRUE, days |-> DayNumber(y, m, d), secs |-> h * 3600 + mi * 60]
                 ELSE BadTime


(***************************************************************************)
(* datetime values are [days, ticks]: the day number and the tick of the   *)
(* day.  A timedelta is normalised as Python does: 0 <= ticks < one day.   *)
(***************************************************************************)
DayTicks == 86400 * Res

HostDateTime(t) ==
    LET base == (23 * 3600 + 33 * 60) * Res + t
    IN  [days |-> DayNumber(2019, 6, 18) + (base \div DayTicks), ticks |-> base % DayTicks]

StationDateTime(st) == [days |-> st.days, ticks |-> st.secs * Res]

TimeDelta(a, b) ==
    LET dd == a.days - b.days
        dt == a.ticks - b.ticks
    IN  IF dt < 0 THEN [days |-> dd - 1, ticks |-> dt + DayTicks]
        ELSE [days |-> dd, ticks |-> dt]

\* deltat.total_seconds() > x, for 0 <= x < 86400
TotalSecondsAbove(d, x) == d.days > 0 \/ (d.days = 0 /\ d.ticks > x * Res)

\* deltat.total_seconds() < -x, for 0 <= x < 86400
TotalSecondsBelowMinus(d, x) ==
    d.days < -1 \/ (d.days = -1 /\ d.ticks - DayTicks < -(x * Res))

\* variant: the upper limit of the window taken one second low
DriftOutsideGE(d) ==
    TotalSecondsAbove(d, DriftHigh - 1) \/ TotalSecondsBelowMinus(d, DriftLow)

\* line 194: deltat.total_seconds() > 70 or deltat.total_seconds() < -10
DriftOutside(d) ==
    TotalSecondsAbove(d, DriftHigh) \/ TotalSecondsBelowMinus(d, DriftLow)

\* line 200: int(self.the_time + 0.5)
Round(t) == (2 * t + Res) \div (2 * Res)

(***************************************************************************)
(* The record built at lines 199-231, as a function from the keys to the   *)
(* values.  The keys of the auxiliary temperatures end in two blanks.      *)
(***************************************************************************)
MakePacket(t, tok) ==
    [dateTime |-> Round(t), fields |->
       ("inTemp" :> At(tok, 3)) @@ ("inHumidity" :> At(tok, 4)) @@
       ("outTemp" :> At(tok, 5)) @@ ("outHumidity" :> At(tok, 6)) @@
       ("rain" :> At(tok, 7)) @@ ("rainDaily" :> At(tok, 8)) @@
       ("windSpeed" :> At(tok, 9)) @@ ("windGust" :> At(tok, 10)) @@
       ("windDir" :> At(tok, 11)) @@ ("windCardinal" :> At(tok, 12)) @@
       ("pressure" :> At(tok, 13)) @@ ("pressureAbs" :> At(tok, 14)) @@
       ("UV" :> At(tok, 15)) @@ ("dewPoint" :> At(tok, 16)) @@
       ("heatIndex" :> At(tok, 17)) @@
       ("ch1Temp  " :> At(tok, 18)) @@ ("ch1Humidity" :> At(tok, 19)) @@
       ("ch2Temp  " :> At(tok, 20)) @@ ("ch2Humidity" :> At(tok, 21)) @@
       ("ch3Temp  " :> At(tok, 22)) @@ ("ch3Humidity" :> At(tok, 23)) @@
       ("ch4Temp  " :> At(tok, 24)) @@ ("ch4Humidity" :> At(tok, 25)) @@
       ("ch5Temp  " :> At(tok, 26)) @@ ("ch5Humidity" :> At(tok, 27)) @@
       ("ch6Temp  " :> At(tok, 28)) @@ ("ch6Humidity" :> At(tok, 29)) @@
       ("ch7Temp  " :> At(tok, 30)) @@ ("ch7Humidity" :> At(tok, 31)) @@
       ("usUnits" :> 1)]

NoPacket == [dateTime |-> -1, fields |-> <<>>]

(***************************************************************************)
(* The device: what it writes into its 64-byte blocks.  A block is         *)
(* byte 0 = packet type, byte 5 = sequence code, byte 6 = declared payload *)
(* length, bytes 7..63 = payload; unused payload bytes hold "#".           *)
(***************************************************************************)
PayloadMax == usb_read_size - PayloadAt

Block(code, declared, payload) ==
    <<254, 0, 0, 0, 0, code, declared>> \o payload
        \o [i \in 1..(PayloadMax - Len(payload)) |-> 35]

RECURSIVE Join(_, _)
Join(toks, sep) ==
    IF toks = <<>> THEN <<>>
    ELSE IF Len(toks) = 1 THEN toks[1]
    ELSE toks[1] \o sep \o Join(Tail(toks), sep)

\* The frames of one dataset text: 0x31, then 0x32 ..., the last 0x33.
RECURSIVE Frames(_, _)
Frames(text, first) ==
    IF Len(text) <= PayloadMax
    THEN <<Block(IF first THEN StartCode ELSE EndCode, Len(text), text)>>
    ELSE <<Block(IF first THEN StartCode ELSE MidCode, PayloadMax,
                 SubSeq(text, 1, PayloadMax))>>
         \o Frames(SubSeq(text, PayloadMax + 1, Len(text)), FALSE)

Idle == Block(0, 0, <<>>)

DeviceStream(text) == Frames(text, TRUE) \o <<Idle>>

Fmt2(n) == <<48 + (n \div 10), 48 + (n % 10)>>

SensorTokens ==
    << <<50, 53, 46, 52>>, <<53, 56>>, <<49, 57, 46, 53>>, <<54, 57>>,
       <<48, 46, 48>>, <<48, 46, 48>>, <<51, 46, 54>>, <<51, 46, 54>>,
       <<50, 53, 51>>, <<87, 83, 87>>, <<49, 48, 49, 52>>, <<57, 53, 51>>,
       <<48>>, <<49, 51, 46, 54>>, <<45, 45, 46, 45>>, <<45, 45, 46, 45>>,
       <<45, 45>>, <<45, 45, 46, 45>>, <<45, 45>>, <<45, 45, 46, 45>>,
       <<45, 45>>, <<45, 45, 46, 45>>, <<45, 45>>, <<45, 45, 46, 45>>,
       <<45, 45>>, <<45, 45, 46, 45>>, <<45, 45>>, <<45, 45, 46, 45>>,
       <<45, 45>> >>

\* 29 pairwise distinct tokens: "A" .. "Z", "a" .. "c"
DistinctTokens == [i \in 1..29 |-> IF i <= 26 THEN <<64 + i>> ELSE <<70 + i>>]

DateTok(y, m, d) == Fmt2(y \div 100) \o Fmt2(y % 100) \o <<45>> \o Fmt2(m) \o <<45>> \o Fmt2(d)
TimeTok(h, mi) == Fmt2(h) \o <<58>> \o Fmt2(mi)

\* "2 2019-06-18 23:<mi> 25.4 58 ..." (the comment at line 179)
DatasetText(mi, sensors) ==
    Join(<< <<50>>, DateTok(2019, 6, 18), TimeTok(23, mi) >> \o sensors, <<32>>)


(***************************************************************************)
(* The streams the device may deliver for one reassembly cycle.            *)
(***************************************************************************)
GoodText(mi) == DatasetText(mi, SensorTokens)
GoodStream(mi) == DeviceStream(GoodText(mi))

\* the same 32 tokens with tabs, line ends and doubled blanks between them,
\* after a stray middle block, the first frame declaring more than it holds
MessyText ==
    <<32>> \o Join(<< <<50>>, DateTok(2019, 6, 18), TimeTok(23, 33) >>
                   \o DistinctTokens, <<9, 32>>) \o <<13, 10>>
MessyStream ==
    LET fr == Frames(MessyText, TRUE)
    IN  <<Block(MidCode, 4, <<74, 85, 78, 75>>)>>
        \o <<[fr[1] EXCEPT ![LenAt + 1] = 255]>> \o Tail(fr) \o <<Idle>>

ShortText ==
    Join(<< <<50>>, DateTok(2019, 6, 18), TimeTok(23, 33) >> \o SubSeq(SensorTokens, 1, 28),
         <<32>>)
ShortStream == DeviceStream(ShortText)
LongText == GoodText(33) \o <<32, 55>>
LongStream == DeviceStream(LongText)
EmptyStream == <<Block(StartCode, 0, <<>>), Idle>>
BlankText == <<32, 9, 10>>
BlankStream == DeviceStream(BlankText)
BadDateText ==
    Join(<< <<50>>, DateTok(2019, 2, 30), TimeTok(23, 33) >> \o SensorTokens, <<32>>)
BadDateStream == DeviceStream(BadDateText)
BadTimeText ==
    Join(<< <<50>>, DateTok(2019, 6, 18), <<45, 45, 46, 45>> >> \o SensorTokens, <<32>>)
BadTimeStream == DeviceStream(BadTimeText)

\* str.split() of the texts above, evaluated once; SplitDataset(s) = Split(s)
SplitOfText ==
    [s \in {GoodText(32), GoodText(33), GoodText(34), MessyText, ShortText, LongText,
            <<>>, BlankText, BadDateText, BadTimeText} |-> Split(s)]
SplitDataset(s) == IF s \in DOMAIN SplitOfText THEN SplitOfText[s] ELSE Split(s)

AcceptedStreams == {GoodStream(32), GoodStream(33), GoodStream(34), MessyStream}
RejectedStreams ==
    {ShortStream, LongStream, EmptyStream, BlankStream, BadDateStream, BadTimeStream}

(***************************************************************************)
(* The environment of a run: how long the blocking calls take (in ticks),  *)
(* what the USB stack answers and what the device sends.  readLat is the   *)
(* wait for the device to start a stream; the blocks of a stream that has  *)
(* started arrive at once.  A transfer that fails ends the stream.         *)
(***************************************************************************)
Free ==
    [ readLat |-> {0, 5 * Res}, consLat |-> {0, 20 * Res}, over |-> {0, 1},
      usbErr |-> {"none", "lost", "timeout"}, found |-> {FALSE, TRUE},
      open |-> {"ok", "open_fails", "claim_fails"},
      setTime |-> {"ok", "date_fails", "time_fails"},
      streams |-> {GoodStream(32), GoodStream(33), MessyStream, ShortStream, BadTimeStream},
      release |-> {"ok", "fails"}, horizon |-> MaxTime * Res ]

Ideal ==
    [ readLat |-> {0}, consLat |-> {0}, over |-> {0},
      usbErr |-> {"none"}, found |-> {FALSE, TRUE},
      open |-> {"ok", "open_fails", "claim_fails"},
      setTime |-> {"ok", "date_fails", "time_fails"},
      streams |-> AcceptedStreams \cup RejectedStreams,
      release |-> {"ok", "fails"}, horizon |-> MaxTimeIdeal * Res ]

\* the Ideal bus with two datasets, for a consumer that closes and reopens the port
Port ==
    [ readLat |-> {0}, consLat |-> {0}, over |-> {0},
      usbErr |-> {"none"}, found |-> {FALSE, TRUE},
      open |-> {"ok", "open_fails", "claim_fails"},
      setTime |-> {"ok", "date_fails", "time_fails"},
      streams |-> {GoodStream(32), ShortStream},
      release |-> {"ok", "fails"}, horizon |-> MaxTime * Res ]

Reasm ==
    [ readLat |-> {0}, consLat |-> {0}, over |-> {0},
      usbErr |-> {"none", "lost"}, found |-> {TRUE}, open |-> {"ok"}, setTime |-> {"ok"},
      streams |-> {}, release |-> {"ok", "fails"}, horizon |-> 0 ]

\* host times (ticks after 23:33:00) at which construction may start
StartTimes == {10 * Res, 10 * Res + 1, 11 * Res, 30 * Res, 49 * Res, 50 * Res}


(***************************************************************************)
(* State.                                                                  *)
(*   pc, ctx       where the driver is, and on whose behalf: "init"        *)
(*                 (__init__), "gen" (genLoopPackets), "recover" (its      *)
(*                 except clause), "consumer" (a call made by the caller   *)
(*                 while the generator is suspended at yield)              *)
(*   now           the host clock                                          *)
(*   the_time, devh            the attributes of BresserUSB                *)
(*   current_time              the local of openPort                       *)
(*   response, dataset         the locals of read_usb_dataset              *)
(*   ds, deltat, packet        the locals of genLoopPackets                *)
(*   claimed       the interfaces claimed on the bus and not released      *)
(*   stream        the blocks the device is about to deliver               *)
(*   raised        the exception that reached the caller, or "none"        *)
(* History, written and never read by the driver:                          *)
(*   verdict, issued   what the last parse decided, and whether it called  *)
(*                     setTime                                             *)
(*   appended      the sequence code and declared length of each block     *)
(*                 appended to dataset so far                              *)
(*   received      the blocks read_usb_block returned to this call of      *)
(*                 read_usb_dataset, in order                              *)
(*   hist, count   the last emissions [dt, at, tt, rec] and their number    *)
(*   recov         the recovery since the last emission, if any            *)
(*   lastIO        whether the last USB transfer went out on a claimed     *)
(*                 handle                                                  *)
(*   t0            the host time at which construction started             *)
(*   finds         the discovery attempts of the current openPort call     *)
(* ds, deltat and packet are dead once the consumer resumes the generator, *)
(* dataset and response once the dataset is split: the model clears them   *)
(* there.                                                                  *)
(***************************************************************************)
VARIABLES pc, ctx, now, the_time, current_time, devh, claimed, stream,
          response, dataset, ds, deltat, packet, raised,
          verdict, issued, appended, received, hist, count, recov, lastIO, t0, finds

vars == <<pc, ctx, now, the_time, current_time, devh, claimed, stream,
          response, dataset, ds, deltat, packet, raised,
          verdict, issued, appended, received, hist, count, recov, lastIO, t0, finds>>

HistLen == 3

NoRecov == [errAt |-> -1, count |-> -1, reopened |-> -1, cause |-> "none"]
NoDelta == [days |-> 0, ticks |-> 0]

InitAt(starts) ==
    /\ now \in starts
    /\ the_time = now                      \* line 94
    /\ t0 = now
    /\ devh = None                         \* line 96
    /\ claimed = 0
    /\ pc = "openPort" /\ ctx = "init"     \* line 97
    /\ current_time = 0
    /\ stream = <<>> /\ response = <<>> /\ dataset = <<>> /\ appended = <<>> /\ received = <<>>
    /\ ds = <<>> /\ deltat = NoDelta /\ packet = NoPacket
    /\ raised = "none" /\ verdict = "none" /\ issued = FALSE
    /\ hist = <<>> /\ count = 0 /\ recov = NoRecov /\ lastIO = "none"
    /\ finds = 0

Init == InitAt({10 * Res, 10 * Res + 1})

InitIdeal == InitAt(StartTimes)

(***************************************************************************)
(* The locals of read_usb_dataset, as a call starts (line 243).            *)
(***************************************************************************)
FreshCall ==
    /\ dataset' = <<>> /\ response' = <<>> /\ appended' = <<>> /\ received' = <<>>

(***************************************************************************)
(* closePort (lines 132-137): release, ignoring any failure, and forget    *)
(* the handle.  h is self.devh, n the interfaces claimed.                  *)
(***************************************************************************)
\* variant: the interface is released and the handle kept
ClosePortKeepsHandle(h, n) ==
    [devh |-> h, claimed |-> IF h # None /\ n > 0 THEN n - 1 ELSE n]

ClosePort(h, n) ==
    [devh |-> None, claimed |-> IF h # None /\ n > 0 THEN n - 1 ELSE n]

\* line 134: what self.devh.releaseInterface() raises
ReleaseRaises(h, rel) ==
    IF h = None THEN "AttributeError" ELSE IF rel = "fails" THEN "USBError" ELSE "none"

\* variant: "except usb.USBError:" for the bare "except:" of line 135
ClosePortCallNarrow(h, n, rel) ==
    [devh |-> None, claimed |-> ClosePort(h, n).claimed,
     raised |-> IF ReleaseRaises(h, rel) = "AttributeError" THEN "AttributeError" ELSE "none"]

\* a call of closePort, the release ending as rel: [devh, claimed] after it
\* and what it raises.  A handle that is dropped gives up its claim.
ClosePortCall(h, n, rel) ==
    [devh |-> ClosePort(h, n).devh, claimed |-> ClosePort(h, n).claimed,
     raised |-> "none"]

(***************************************************************************)
(* What follows the return of openPort, by caller: line 98 in __init__,    *)
(* lines 175-176 in the except clause of genLoopPackets.                   *)
(***************************************************************************)
\* variant: line 175 left out
AfterOpenPortNoReset(c, t) ==
    CASE c = "init" -> [pc |-> "setTime", the_time |-> the_time]
      [] c = "recover" -> [pc |-> "seek", the_time |-> the_time]
      [] OTHER -> [pc |-> "yielded", the_time |-> the_time]

AfterOpenPort(c, t) ==
    CASE c = "init" -> [pc |-> "setTime", the_time |-> the_time]
      [] c = "recover" -> [pc |-> "seek", the_time |-> t]
      [] OTHER -> [pc |-> "yielded", the_time |-> the_time]

OpenPortReturns(t) ==
    LET r == AfterOpenPort(ctx, t)
    IN  /\ pc' = r.pc
        /\ the_time' = r.the_time
        /\ ctx' = IF ctx = "recover" THEN "gen" ELSE ctx
        /\ recov' = IF ctx = "recover" THEN [recov EXCEPT !.reopened = t] ELSE recov

\* lines 100-104
OpenPort ==
    /\ pc = "openPort"
    /\ IF devh # None
       THEN OpenPortReturns(now) /\ UNCHANGED <<current_time, finds>>
       ELSE /\ current_time' = now
            /\ finds' = 0
            /\ pc' = "find"
            /\ UNCHANGED <<ctx, the_time, recov>>
    /\ UNCHANGED <<now, devh, claimed, stream, response, dataset, ds, deltat, packet,
                   raised, verdict, issued, appended, received, hist, count, lastIO, t0>>

\* variant: "if not dev" for "while not dev", dev.open() after one retry
NotFoundOnce(ct, t) ==
    LET sleep_time == ct + openport_interval * Res - t
    IN  [now |-> IF sleep_time > 0 THEN t + sleep_time ELSE t,
         current_time |-> ct + openport_interval * Res, pc |-> "open"]

\* lines 106-112: the body of the retry loop, up to the next _find_device
NotFound(ct, t) ==
    LET sleep_time == ct + openport_interval * Res - t
    IN  [now |-> IF sleep_time > 0 THEN t + sleep_time ELSE t,
         current_time |-> ct + openport_interval * Res, pc |-> "find"]

\* lines 105-112: one call of _find_device (139-146) and, if it found
\* nothing, the sleep to the next attempt
FindDevice(e) ==
    /\ pc = "find"
    /\ \E found \in e.found :
         IF found
         THEN pc' = "open" /\ finds' = finds + 1 /\ UNCHANGED <<now, current_time>>
         ELSE LET r == NotFound(current_time, now)
              IN  /\ finds < MaxFinds
                  /\ finds' = finds + 1
                  /\ now' = r.now
                  /\ now' <= t0 + e.horizon
                  /\ current_time' = r.current_time
                  /\ pc' = r.pc
    /\ UNCHANGED <<ctx, the_time, devh, claimed, stream, response, dataset, ds, deltat,
                   packet, raised, verdict, issued, appended, received, hist, count, recov, lastIO, t0>>

\* variant: the claim failure is raised with the handle left open
ClaimFailedLeak(h, n) == [devh |-> h, claimed |-> n, raised |-> "WeeWxIOError"]

\* lines 127-130: closePort, then raise WeeWxIOError(e)
ClaimFailed(h, n) ==
    [devh |-> ClosePort(h, n).devh, claimed |-> ClosePort(h, n).claimed,
     raised |-> "WeeWxIOError"]

\* lines 114-130
OpenClaim(e) ==
    /\ pc = "open"
    /\ \E res \in e.open :
         CASE res = "open_fails" ->
                /\ devh' = None /\ UNCHANGED claimed
                /\ pc' = "raised" /\ raised' = "WeeWxIOError: Open USB device failed"
                /\ UNCHANGED <<ctx, the_time, recov>>
           [] res = "claim_fails" ->
                LET c == ClaimFailed("h", claimed)
                IN  /\ devh' = c.devh /\ claimed' = c.claimed
                    /\ pc' = "raised" /\ raised' = c.raised
                    /\ UNCHANGED <<ctx, the_time, recov>>
           [] OTHER ->
                /\ devh' = "h" /\ claimed' = claimed + 1
                /\ OpenPortReturns(now)
                /\ UNCHANGED raised
    /\ UNCHANGED <<now, current_time, stream, response, dataset, ds, deltat, packet,
                   verdict, issued, appended, received, hist, count, lastIO, t0, finds>>

IoStatus == IF claimed > 0 THEN "claimed" ELSE "unclaimed"

\* variant: after the time-set the loop starts over without the record
AfterSetTimeDiscards(c) == IF c = "init" THEN "constructed" ELSE "seek"

\* where setTime returns to: the end of __init__ (line 98), or line 199 of
\* genLoopPackets, where the record of the dataset at hand is built
AfterSetTime(c) == IF c = "init" THEN "constructed" ELSE "emit"

\* lines 152-165.  The handler is "except e:", and e is bound nowhere: a
\* failure of either controlMsg (or of the attribute look-up on None) raises
\* NameError out of setTime.
SetTime(e) ==
    /\ pc = "setTime"
    /\ \E res \in e.setTime :
         IF devh = None \/ res # "ok"
         THEN /\ pc' = "raised" /\ raised' = "NameError"
              /\ lastIO' = IF devh = None THEN lastIO ELSE IoStatus
         ELSE /\ pc' = AfterSetTime(ctx)
              /\ lastIO' = IoStatus
              /\ UNCHANGED raised
    /\ UNCHANGED <<ctx, now, the_time, current_time, devh, claimed, stream, response,
                   dataset, ds, deltat, packet, verdict, issued, appended, received, hist, count,
                   recov, t0, finds>>

\* the caller obtains the generator and asks for its first record: after
\* construction, or again after an exception ended the previous generator
GenLoopPackets(e) ==
    /\ IF pc = "raised" THEN ctx # "init" ELSE pc = "constructed"
    /\ \E d \in e.consLat : now' = now + d /\ now' <= t0 + e.horizon
    /\ pc' = "seek" /\ ctx' = "gen" /\ raised' = "none"
    /\ FreshCall
    /\ ds' = <<>> /\ deltat' = NoDelta /\ packet' = NoPacket
    /\ verdict' = "none" /\ issued' = FALSE
    /\ UNCHANGED <<the_time, current_time, devh, claimed, stream, hist, count, recov,
                   lastIO, t0, finds>>


(***************************************************************************)
(* read_usb_dataset (lines 242-264), one action for each read_usb_block    *)
(* (lines 266-292): a control message and one interrupt read.              *)
(*   pc = "seek"     lines 244-255, no start code seen yet                 *)
(*   pc = "collect"  lines 257-263, response holds a block to append       *)
(***************************************************************************)
SeqCodes == {StartCode, MidCode, EndCode}

\* variant: the payload bytes of the block, whatever it declares
PayloadWhole(resp) == Slice(resp, PayloadAt, Len(resp))

\* line 258: response[7:7+packetlen]
Payload(resp) == Slice(resp, PayloadAt, PayloadAt + At(resp, LenAt))

\* lines 286-291: what read_usb_block raises when the transfer ends as outcome:
\* a device that is gone ("lost") and an interrupt read that ran out of time
\* ("timeout") are both usb.USBError, and nothing in between catches either
ReadRaises(outcome) == IF outcome = "none" THEN "none" ELSE "USBError"

\* variant: the end code is not one of the codes that continue a dataset
InSequenceNoEnd(code) == code \in {StartCode, MidCode}

\* line 257: packetcount in [0x31, 0x32, 0x33]
InSequence(code) == code \in SeqCodes

\* variant: the payload goes in front of the dataset
AppendedInFront(data, resp) == Payload(resp) \o data

\* line 258: dataset += "".join(map(chr, response[7:7+packetlen]))
Appended(data, resp) == data \o Payload(resp)

ReadBlock(e) ==
    /\ pc \in {"seek", "collect"}
    /\ IF devh = None
       THEN \* self.devh.controlMsg on None: AttributeError, which line 171 does not catch
            /\ pc' = "raised" /\ raised' = "AttributeError"
            /\ UNCHANGED <<ctx, now, devh, claimed, stream, response, dataset, appended, received,
                           recov, lastIO>>
       ELSE \E d \in (IF stream = <<>> THEN e.readLat ELSE {0}), err \in e.usbErr :
            /\ err = "timeout" => d > 0     \* a read times out after waiting
            /\ now' = now + d /\ now' <= t0 + e.horizon
            /\ lastIO' = IoStatus
            /\ UNCHANGED raised
            /\ IF ReadRaises(err) = "USBError"
               THEN \* lines 171-174: closePort(), then openPort()
                    LET c == ClosePort(devh, claimed)
                    IN  /\ devh' = c.devh /\ claimed' = c.claimed
                        /\ pc' = "openPort" /\ ctx' = "recover"
                        /\ recov' = [errAt |-> now', count |-> count, reopened |-> -1,
                                  cause |-> err]
                        /\ FreshCall
                        /\ stream' = <<>>
               ELSE \E src \in (IF stream # <<>> THEN {stream} ELSE e.streams) :
                    LET block == Head(src)
                        packetcount == At(block, CountAt)
                    IN  /\ stream' = Tail(src)
                        /\ response' = block
                        /\ received' = Append(received, block)
                        /\ IF pc = "seek"
                           THEN /\ pc' = IF packetcount = StartCode THEN "collect" ELSE "seek"
                                /\ UNCHANGED <<dataset, appended>>
                           ELSE /\ dataset' = Appended(dataset, response)
                                /\ appended' = Append(appended, [code |-> At(response, CountAt),
                                                          declared |-> At(response, LenAt)])
                                /\ pc' = IF InSequence(packetcount) THEN "collect" ELSE "parse"
                        /\ UNCHANGED <<ctx, devh, claimed, recov>>
    /\ UNCHANGED <<the_time, current_time, ds, deltat, packet, verdict, issued,
                   hist, count, t0, finds>>

\* variant: only too few tokens are rejected
BadCountFewer(n) == n < NFields

\* line 180: len(ds) != 32
BadCount(n) == n # NFields

\* lines 178-196: split, count the tokens, parse the time, compare the clocks
Parse ==
    /\ pc = "parse"
    /\ ds' = SplitDataset(dataset)
    /\ IF BadCount(Len(ds'))
       THEN /\ verdict' = "count" /\ issued' = FALSE /\ pc' = "skip"
            /\ UNCHANGED <<deltat, ctx>>
       ELSE LET st == StrpTime(At(ds', 1), At(ds', 2))
            IN  IF ~ st.ok
                THEN /\ verdict' = "time" /\ issued' = FALSE /\ pc' = "skip"
                     /\ UNCHANGED <<deltat, ctx>>
                ELSE /\ verdict' = "ok"
                     /\ deltat' = TimeDelta(HostDateTime(now), StationDateTime(st))
                     /\ issued' = DriftOutside(deltat')
                     /\ pc' = IF issued' THEN "setTime" ELSE "emit"
                     /\ ctx' = "gen"
    /\ FreshCall
    /\ UNCHANGED <<now, the_time, current_time, devh, claimed, stream, packet, raised,
                   hist, count, recov, lastIO, t0, finds>>

\* variant: the rejected dataset passes through lines 235-240
AfterRejectPaced(t, n) ==
    [now |-> IF t + loop_interval * Res > n THEN t + loop_interval * Res ELSE n,
     the_time |-> IF t + loop_interval * Res > n THEN t + loop_interval * Res ELSE n]

\* lines 182 and 192: "continue" goes back to line 168, past lines 235-240:
\* the host clock and the pacing clock as the next cycle starts
AfterReject(t, n) == [now |-> n, the_time |-> t]

\* lines 181-182 and 191-192: log the rejected dataset and continue
Skip ==
    /\ pc = "skip"
    /\ pc' = "seek"
    /\ ds' = <<>> /\ verdict' = "none"
    /\ now' = AfterReject(the_time, now).now
    /\ the_time' = AfterReject(the_time, now).the_time
    /\ UNCHANGED <<ctx, current_time, devh, claimed, stream, response,
                   dataset, deltat, packet, raised, issued, appended, received, hist, count, recov,
                   lastIO, t0, finds>>

LastN(q, n) == IF Len(q) <= n THEN q ELSE SubSeq(q, Len(q) - n + 1, Len(q))

\* lines 199-234: build the record and hand it to the consumer
Emit ==
    /\ pc = "emit"
    /\ packet' = MakePacket(the_time, ds)
    /\ pc' = "yielded"
    /\ count' = count + 1
    /\ hist' = LastN(Append(hist, [dt |-> packet'.dateTime, at |-> now, tt |-> the_time,
                                   rec |-> recov.reopened]), HistLen)
    /\ recov' = NoRecov
    /\ UNCHANGED <<ctx, now, the_time, current_time, devh, claimed, stream, response,
                   dataset, ds, deltat, raised, verdict, issued, appended, received, lastIO, t0, finds>>

(***************************************************************************)
(* Lines 235-240, once the consumer asks for the next record at host time  *)
(* `resumed`: the new host time and the new pacing clock.                  *)
(***************************************************************************)
\* variant: the pacing clock advances and line 237 does not sleep
PaceNoSleep(t, resumed, over) ==
    LET sleep_time == t + loop_interval * Res - resumed
    IN  IF sleep_time > 0
        THEN [now |-> resumed, the_time |-> t + loop_interval * Res]
        ELSE [now |-> resumed, the_time |-> resumed]

\* variant: an iteration that is late leaves the pacing clock as it was
PaceClockLateKeeps(t, resumed, over) ==
    LET sleep_time == t + loop_interval * Res - resumed
    IN  IF sleep_time > 0
        THEN [now |-> resumed + sleep_time + over, the_time |-> t + loop_interval * Res]
        ELSE [now |-> resumed, the_time |-> t]

\* variant: an iteration that is late keeps to the schedule and catches up
PaceClockCatchesUp(t, resumed, over) ==
    LET sleep_time == t + loop_interval * Res - resumed
    IN  IF sleep_time > 0
        THEN [now |-> resumed + sleep_time + over, the_time |-> t + loop_interval * Res]
        ELSE [now |-> resumed, the_time |-> t + loop_interval * Res]

PaceClock(t, resumed, over) ==
    LET sleep_time == t + loop_interval * Res - resumed
    IN  IF sleep_time > 0
        THEN [now |-> resumed + sleep_time + over, the_time |-> t + loop_interval * Res]
        ELSE [now |-> resumed, the_time |-> resumed]

Pace(e) ==
    /\ pc = "yielded"
    /\ \E c \in e.consLat, over \in e.over :
         LET p == PaceClock(the_time, now + c, over)
         IN  /\ now' = p.now /\ the_time' = p.the_time
             /\ now' <= t0 + e.horizon
    /\ pc' = "seek" /\ ctx' = "gen"
    /\ ds' = <<>> /\ deltat' = NoDelta /\ packet' = NoPacket
    /\ verdict' = "none" /\ issued' = FALSE
    /\ UNCHANGED <<current_time, devh, claimed, stream, response, dataset, appended, received, raised,
                   hist, count, recov, lastIO, t0, finds>>

\* the consumer, holding a record, calls openPort itself
ConsumerOpenPort ==
    /\ pc = "yielded"
    /\ pc' = "openPort" /\ ctx' = "consumer"
    /\ UNCHANGED <<now, the_time, current_time, devh, claimed, stream, response,
                   dataset, ds, deltat, packet, raised, verdict, issued, appended, received, hist,
                   count, recov, lastIO, t0, finds>>

\* the consumer, holding a record, calls closePort itself
ConsumerClosePort(e) ==
    /\ pc = "yielded"
    /\ \E rel \in e.release :
         LET c == ClosePortCall(devh, claimed, rel)
         IN  /\ devh' = c.devh /\ claimed' = c.claimed
             /\ raised' = c.raised
             /\ pc' = IF c.raised = "none" THEN "yielded" ELSE "raised"
    /\ ctx' = "consumer"
    /\ UNCHANGED <<now, the_time, current_time, stream, response, dataset, ds, deltat,
                   packet, verdict, issued, appended, received, hist, count, recov, lastIO, t0,
                   finds>>

(***************************************************************************)
(* Specifications.                                                         *)
(*   Spec       construction and iteration under every transport outcome   *)
(*   SpecIdeal  the same driver when no call takes time, no transfer fails *)
(*              and every dataset is accepted                              *)
(*   SpecPort   a quiet bus and a consumer that also calls closePort       *)
(*   SpecReasm  read_usb_dataset alone, on block streams drawn at Init     *)
(***************************************************************************)
Next ==
    \/ OpenPort
    \/ FindDevice(Free)
    \/ OpenClaim(Free)
    \/ SetTime(Free)
    \/ GenLoopPackets(Free)
    \/ ReadBlock(Free)
    \/ Parse
    \/ Skip
    \/ Emit
    \/ Pace(Free)
    \/ ConsumerOpenPort

Spec == Init /\ [][Next]_vars

NextIdeal ==
    \/ OpenPort
    \/ FindDevice(Ideal)
    \/ OpenClaim(Ideal)
    \/ SetTime(Ideal)
    \/ GenLoopPackets(Ideal)
    \/ ReadBlock(Ideal)
    \/ Parse
    \/ Skip
    \/ Emit
    \/ Pace(Ideal)
    \/ ConsumerOpenPort

SpecIdeal == InitIdeal /\ [][NextIdeal]_vars

NextPort ==
    \/ OpenPort
    \/ FindDevice(Port)
    \/ OpenClaim(Port)
    \/ SetTime(Port)
    \/ GenLoopPackets(Port)
    \/ ReadBlock(Port)
    \/ Parse
    \/ Skip
    \/ Emit
    \/ Pace(Port)
    \/ ConsumerOpenPort
    \/ ConsumerClosePort(Port)

SpecPort == Init /\ [][NextPort]_vars

DeclaredLengths == {0, 3, PayloadMax, PayloadMax + 1, 255}

DrawnBlocks ==
    {Block(code, n, [i \in 1..PayloadMax |-> 65 + ((code + i) % 26)]) :
        code \in SeqCodes \cup {0}, n \in DeclaredLengths}

DrawnStreams ==
    UNION {[1..k -> DrawnBlocks] : k \in 1..MaxBlocks}

InitReasm ==
    /\ \E s \in DrawnStreams, last \in {<<>>, <<Idle>>} : stream = s \o last
    /\ pc = "seek" /\ ctx = "gen"
    /\ now = 0 /\ the_time = 0 /\ t0 = 0 /\ current_time = 0
    /\ devh = "h" /\ claimed = 1
    /\ response = <<>> /\ dataset = <<>> /\ appended = <<>> /\ received = <<>>
    /\ ds = <<>> /\ deltat = NoDelta /\ packet = NoPacket
    /\ raised = "none" /\ verdict = "none" /\ issued = FALSE
    /\ hist = <<>> /\ count = 0 /\ recov = NoRecov /\ lastIO = "none"
    /\ finds = 0

NextReasm == ReadBlock(Reasm)

SpecReasm == InitReasm /\ [][NextReasm]_vars

(***************************************************************************)
(* Properties.                                                             *)
(***************************************************************************)

\* C1: whatever the transport does while a consumer iterates genLoopPackets
\* (USB errors during reassembly, device absent, open or claim failure in
\* the reopen that follows a USB error), no error reaches the consumer: an
\* exception leaves the driver only during construction.  (The exception
\* that leaves setTime is C2's subject and is set aside here.)
C1_NoErrorReachesConsumer ==
    (pc = "raised" /\ raised # "NameError") => ctx = "init"

\* C2: a failure of either control message of setTime is never fatal:
\* setTime returns normally, to __init__ during construction and to the
\* emission of the current record in genLoopPackets.
C2_SetTimeNeverFatal ==
    [][pc = "setTime" => pc' = IF ctx = "init" THEN "constructed" ELSE "emit"]_vars

\* the driver between a USB error and the return of the reopen, and the
\* records emitted after a recovery
C3_Recovering ==
    /\ ctx = "recover" =>
         /\ pc \in {"openPort", "find", "open", "raised"}
         /\ devh = None /\ dataset = <<>> /\ count = recov.count
    /\ (recov.reopened >= 0 /\ pc # "yielded") => the_time = recov.reopened
    /\ \A i \in DOMAIN hist :
         hist[i].rec >= 0 => hist[i].tt = hist[i].rec /\ hist[i].dt = Round(hist[i].rec)

\* the steps that enter and that leave a recovery
C3_RecoveryStep ==
    /\ (ctx # "recover" /\ ctx' = "recover") =>
         /\ pc \in {"seek", "collect"} /\ pc' = "openPort"
         /\ devh' = None /\ dataset' = <<>> /\ count' = count
    /\ (ctx = "recover" /\ pc # "raised" /\ ctx' # "recover") =>
         /\ pc' = "seek" /\ devh' # None /\ the_time' = now' /\ count' = count

\* C3: a USB error in read_usb_dataset closes the handle and starts a reopen;
\* until the reopen returns the driver is in openPort, holds no handle and
\* emits nothing; when it returns, the_time is the host time read then, the
\* dataset of the interrupted cycle is gone, and the next record emitted
\* carries the reset value of the latest recovery as dateTime.
C3_RecoveryResetsPacingClock == []C3_Recovering /\ [][C3_RecoveryStep]_vars

\* a record emitted after a recovery, off the schedule of the record before
C3_Witness ==
    /\ Len(hist) >= 2
    /\ hist[Len(hist)].rec >= 0
    /\ hist[Len(hist)].tt # hist[Len(hist) - 1].tt + loop_interval * Res

\* no record is built from a dataset of the wrong token count
C4_NoRecordFromWrongCount ==
    /\ verdict = "count" => pc = "skip" /\ Len(ds) # 32 /\ raised = "none"
    /\ pc \in {"emit", "yielded"} => Len(ds) = 32

\* the step that splits such a dataset, and the step after it
C4_WrongCountStep ==
    /\ (pc = "parse" /\ Len(Split(dataset)) # 32) =>
         /\ pc' = "skip" /\ verdict' = "count"
         /\ count' = count /\ hist' = hist /\ packet' = packet /\ raised' = raised
    /\ (pc = "skip" /\ verdict = "count") =>
         /\ pc' = "seek" /\ dataset' = <<>>
         /\ count' = count /\ hist' = hist /\ packet' = packet /\ raised' = raised

\* C4: a reassembled dataset whose token count is not exactly 32 (fewer,
\* none at all, or more) yields no record and no exception, and the loop
\* goes on to the next reassembly cycle.
C4_WrongCountSkipped == []C4_NoRecordFromWrongCount /\ [][C4_WrongCountStep]_vars

\* a dataset of 33 tokens was rejected
C4_Witness == pc = "skip" /\ verdict = "count" /\ Len(ds) = 33

\* the 29 sensor fields, in the order of tokens 3 .. 31
SensorKeys ==
    << "inTemp", "inHumidity", "outTemp", "outHumidity", "rain", "rainDaily",
       "windSpeed", "windGust", "windDir", "windCardinal", "pressure", "pressureAbs",
       "UV", "dewPoint", "heatIndex", "ch1Temp  ", "ch1Humidity", "ch2Temp  ",
       "ch2Humidity", "ch3Temp  ", "ch3Humidity", "ch4Temp  ", "ch4Humidity",
       "ch5Temp  ", "ch5Humidity", "ch6Temp  ", "ch6Humidity", "ch7Temp  ",
       "ch7Humidity" >>

\* C5: a dataset of exactly 32 tokens whose tokens 1 and 2 parse as a time
\* is followed by the emission of one record, never by an exception, and
\* the sensor fields of the record are tokens 3 .. 31 unchanged, token 0 in
\* no field.
C5_AcceptedDatasetEmitted ==
    /\ verdict = "ok" => pc # "raised"
    /\ pc = "yielded" =>
         /\ \A k \in DOMAIN SensorKeys : packet.fields[SensorKeys[k]] = At(ds, k + 2)
         /\ DOMAIN packet.fields = {SensorKeys[k] : k \in DOMAIN SensorKeys} \cup {"usUnits"}

\* the drift host - device of the accepted dataset, in ticks
C6_Drift == deltat.days * DayTicks + deltat.ticks

\* C6: for every accepted dataset a time-set is issued exactly when the
\* drift d = host time - device time is above 70 s or below -10 s: issued at
\* 71 s and at -11 s, not at 30 s, 70 s or -10 s.
C6_TimeSetIffOutsideWindow ==
    verdict = "ok" =>
        /\ issued <=> (C6_Drift > 70 * Res \/ C6_Drift < -10 * Res)
        /\ (pc = "setTime" /\ ctx # "init") => issued
        /\ pc = "emit" /\ ~ issued => C6_Drift \in (-10 * Res)..(70 * Res)

\* a drift of exactly 71 s, and the time-set about to be sent
C6_Witness ==
    verdict = "ok" /\ C6_Drift = 71 * Res /\ issued /\ pc = "setTime"

\* the sum of the declared lengths of the appended blocks, as declared and
\* as cut to the payload bytes a block holds
RECURSIVE DeclaredSum(_)
DeclaredSum(q) == IF q = <<>> THEN 0 ELSE Head(q).declared + DeclaredSum(Tail(q))

RECURSIVE HeldSum(_)
HeldSum(q) ==
    IF q = <<>> THEN 0 ELSE Min(Head(q).declared, usb_read_size - 7) + HeldSum(Tail(q))

\* C7, as first stated: for a start block followed by middle or end blocks and
\* then any other block, the dataset returned has length exactly the sum of
\* the declared lengths, whatever each declared length (0..255) is.
C7_LengthIsDeclaredSum ==
    ( /\ pc = "parse"
      /\ appended[1].code = 49
      /\ \A i \in 2..Len(appended) : appended[i].code \in {50, 51} )
    => Len(dataset) = DeclaredSum(appended)

\* C7, amended: read_usb_dataset returns a string whose length is the sum, over the
\* start block and the blocks appended after it, of the declared length cut
\* to 57, the payload bytes a 64-byte block holds.
C7_LengthIsHeldSum ==
    pc = "parse" =>
        /\ Len(appended) >= 1 /\ appended[1].code = 49
        /\ Len(dataset) = HeldSum(appended)

\* a dataset of several blocks, one declaring 255 bytes and one declaring 3
C7_Witness ==
    /\ pc = "parse" /\ Len(appended) >= 2
    /\ \E i, j \in DOMAIN appended : appended[i].declared = 255 /\ appended[j].declared = 3

\* C8: with no latency, no transport error and every dataset accepted, the
\* dateTime values of consecutive records differ by exactly loop_interval,
\* from the first record after construction on.
C8_CadenceFromFirstRecord ==
    \A i \in 1..(Len(hist) - 1) : hist[i + 1].dt - hist[i].dt = 15

\* C9, as first stated: for any two consecutive records the host time at the
\* second emission is at least loop_interval after the host time at the
\* first, also right after an iteration that fell behind.
C9_HostSpacing ==
    \A i \in 1..(Len(hist) - 1) : hist[i + 1].at - hist[i].at >= 15 * Res

\* C9, amended: for any two consecutive records the host time at the second
\* emission is at least loop_interval after the pacing-clock value the first record
\* carries.
C9_NextNotBeforeSchedule ==
    \A i \in 1..(Len(hist) - 1) : hist[i + 1].at >= hist[i].tt + 15 * Res

\* two consecutive records less than loop_interval apart in host time
C9_Witness ==
    /\ Len(hist) >= 2
    /\ hist[Len(hist)].at - hist[Len(hist) - 1].at < 15 * Res

\* the handle held, and the handle the transfers went out on
C10_OneHandle ==
    /\ claimed = IF devh # None THEN 1 ELSE 0
    /\ lastIO # "unclaimed"
    /\ pc \in {"collect", "parse", "emit", "yielded"} => devh # None

\* openPort entered with a handle held
C10_OpenPortHeldStep ==
    (pc = "openPort" /\ devh # None) =>
        /\ pc' \notin {"find", "open", "raised"}
        /\ devh' = devh /\ claimed' = claimed
        /\ now' = now /\ current_time' = current_time /\ finds' = finds

\* C10: at most one handle is held, and it is the one that claimed the
\* interface; every control message and interrupt read goes out on a held
\* handle; openPort called while a handle is held returns at once, without
\* discovery and without replacing the handle.
C10_SingleHandle == []C10_OneHandle /\ [][C10_OpenPortHeldStep]_vars

\* the consumer's openPort has returned with the handle still held
C10_Witness == pc = "yielded" /\ ctx = "consumer" /\ devh # None

\* construction up to the point it ends: nothing is sent before the claim,
\* and a claim failure leaves no handle behind
C11_Constructing ==
    ctx = "init" =>
        /\ pc \in {"openPort", "find", "open", "setTime"} => lastIO = "none"
        /\ pc \in {"openPort", "find", "open"} => devh = None /\ claimed = 0
        /\ pc = "open" => finds >= 1
        /\ pc = "setTime" => devh # None /\ claimed = 1
        /\ (pc = "raised" /\ raised = "WeeWxIOError") =>
               devh = None /\ claimed = 0 /\ lastIO = "none"

\* the order of the steps of construction; none follows an exception
C11_ConstructionStep ==
    ctx = "init" =>
        /\ pc # "raised"
        /\ <<pc, pc'>> \in
             { <<"openPort", "find">>, <<"find", "find">>, <<"find", "open">>,
               <<"open", "setTime">>, <<"open", "raised">>,
               <<"setTime", "constructed">>, <<"setTime", "raised">>,
               <<"constructed", "seek">> }

\* C11: construction runs discovery, open, claim and the first time-set in
\* that order; a claim failure releases and clears the handle, raises an I/O
\* error to the caller, and is followed by no discovery attempt and no
\* time-set command.
C11_ClaimFailureAbortsConstruction ==
    []C11_Constructing /\ [][C11_ConstructionStep]_vars

\* construction ended by the claim failure
C11_Witness ==
    ctx = "init" /\ pc = "raised" /\ raised = "WeeWxIOError" /\ finds >= 1 /\ devh = None

\* in discovery nothing is held and nothing was raised, and one more attempt
\* can always be made
C12_Discovering ==
    pc = "find" =>
        /\ devh = None /\ raised = "none"
        /\ ENABLED FindDevice(Free)

\* one discovery attempt: it finds nothing, and the loop sleeps to the next
\* slot of the rolling schedule and tries again, or it finds the device and
\* openPort goes on to open it
C12_DiscoveryStep ==
    pc = "find" =>
        /\ pc' \in {"find", "open"} /\ finds' = finds + 1
        /\ devh' = devh /\ raised' = raised /\ ctx' = ctx
        /\ pc' = "find" =>
             /\ current_time' = current_time + 15 * Res
             /\ now' >= now /\ now' >= current_time'
        /\ pc' = "open" => now' = now /\ current_time' = current_time

\* C12: openPort has no give-up path: after any number of attempts that
\* find nothing it makes another, it neither returns nor raises while the
\* device is not found, and it leaves the loop only on the attempt that
\* finds the device, going on to open it.
C12_NoGiveUp == []C12_Discovering /\ [][C12_DiscoveryStep]_vars

\* the device was found at the third attempt, 30 s after the first
C12_Witness ==
    pc = "open" /\ finds = 3 /\ now >= current_time /\ current_time >= t0 + 30 * Res

\* closePort applied to the state at hand, and applied again to its result
C13_ClosePortAnywhere ==
    \A rel1, rel2 \in {"ok", "fails"} :
        LET once == ClosePortCall(devh, claimed, rel1)
            twice == ClosePortCall(once.devh, once.claimed, rel2)
        IN  /\ once.raised = "none" /\ once.devh = None /\ once.claimed = 0
            /\ twice = once

\* the consumer's closePort, and the openPort that follows a closePort
C13_ClosePortStep ==
    /\ (pc = "yielded" /\ pc' = "yielded" /\ devh' # devh) =>
         /\ devh' = None /\ claimed' = 0 /\ raised' = raised
         /\ now' = now /\ the_time' = the_time /\ lastIO' = lastIO
    /\ (pc = "openPort" /\ devh = None) =>
         /\ pc' = "find" /\ finds' = 0 /\ current_time' = now /\ devh' = None
    /\ (ctx = "consumer" /\ pc = "open" /\ pc' # "raised") =>
         /\ pc' = "yielded" /\ devh' # None /\ claimed' = 1

\* C13: closePort never fails and is idempotent: with a handle held or
\* absent, the release succeeding or failing, it raises nothing and leaves
\* the handle absent, a second call changes nothing, and the openPort after
\* it runs discovery, open and claim in full.
C13_ClosePortIdempotent == []C13_ClosePortAnywhere /\ [][C13_ClosePortStep]_vars

\* after a closePort by the consumer, its openPort has found the device again
C13_Witness == ctx = "consumer" /\ pc = "open" /\ devh = None /\ finds >= 1

\* C14: a read that merely timed out is told apart from a USB I/O failure
\* and does not send genLoopPackets through the close-and-reopen recovery.
C14_TimeoutIsNotRecovered == ~(ctx = "recover" /\ recov.cause = "timeout")

\* the first block of bs that carries the start code, and the first block
\* after position i whose code is none of 0x31, 0x32, 0x33 (Len(bs) + 1 when
\* there is none)
FirstStart(bs) ==
    CHOOSE i \in 1..(Len(bs) + 1) :
        /\ i <= Len(bs) => At(bs[i], CountAt) = 49
        /\ \A k \in 1..(i - 1) : At(bs[k], CountAt) # 49

FirstOther(bs, i) ==
    CHOOSE j \in (i + 1)..(Len(bs) + 1) :
        /\ j <= Len(bs) => At(bs[j], CountAt) \notin {49, 50, 51}
        /\ \A k \in (i + 1)..(j - 1) : At(bs[k], CountAt) \in {49, 50, 51}

\* the payloads of blocks i..j of bs, one after the other
RECURSIVE PayloadsOf(_, _, _)
PayloadsOf(bs, i, j) ==
    IF i > j THEN <<>>
    ELSE SubSeq(bs[i], 8, Min(7 + bs[i][7], Len(bs[i]))) \o PayloadsOf(bs, i + 1, j)

\* C15: what read_usb_dataset returns is the payloads, in order, of the
\* blocks from the first start block up to but not including the first later
\* block with another code, that block being the last one read: nothing of
\* the blocks before the start block, of the terminating block or of an
\* earlier call is in it.
C15_DatasetIsPayloadsInOrder ==
    pc = "parse" =>
        LET s == FirstStart(received)
            t == FirstOther(received, s)
        IN  /\ s <= Len(received) /\ t = Len(received)
            /\ dataset = PayloadsOf(received, s, t - 1)

\* a dataset of several blocks returned by a call that skipped a block before
\* the start block, after an earlier call was cut short by a transport error
C15_Witness ==
    /\ pc = "parse" /\ recov.reopened >= 0
    /\ FirstStart(received) > 1
    /\ FirstOther(received, FirstStart(received)) > FirstStart(received) + 1
    /\ dataset # <<>>

\* what a rejection leaves alone
C16_Untouched ==
    /\ the_time' = the_time /\ now' = now
    /\ devh' = devh /\ claimed' = claimed /\ lastIO' = lastIO
    /\ count' = count /\ hist' = hist /\ packet' = packet
    /\ raised' = raised /\ ctx' = ctx

\* the step that rejects a dataset, and the step after it
C16_RejectStep ==
    /\ ( /\ pc = "parse"
         /\ \/ Len(SplitDataset(dataset)) # 32
            \/ ~ StrpTime(SplitDataset(dataset)[2], SplitDataset(dataset)[3]).ok )
       => pc' = "skip"
    /\ (pc = "parse" /\ pc' = "skip") =>
         /\ verdict' \in {"count", "time"} /\ issued' = FALSE
         /\ C16_Untouched
    /\ pc = "skip" => (pc' = "seek" /\ dataset' = <<>> /\ C16_Untouched)

\* C16: rejecting a dataset (token count not 32, or tokens 1 and 2 not a
\* time) leaves the pacing clock and the device handle as they were, sends
\* no time-set, sleeps for no pacing, emits nothing and raises nothing, and
\* the next reassembly cycle starts at once.
C16_RejectionTouchesNothing == [][C16_RejectStep]_vars

\* a dataset with an unparseable time was rejected after a record was emitted
C16_Witness == pc = "skip" /\ verdict = "time" /\ count >= 1 /\ the_time > t0

\* the steps of an iteration, each seen from the step before it
C17_IterationStep ==
    /\ (pc' = "parse" /\ pc # "parse") => pc = "collect"
    /\ (pc' = "setTime" /\ pc # "setTime" /\ ctx' = "gen") =>
         (pc = "parse" /\ verdict' = "ok" /\ issued')
    /\ (pc' = "emit" /\ pc # "emit") =>
         \/ pc = "parse" /\ verdict' = "ok" /\ ~ issued'
         \/ pc = "setTime" /\ issued /\ lastIO' = "claimed" /\ ds' = ds /\ count' = count
    /\ (pc = "parse" /\ verdict' = "ok") => pc' = IF issued' THEN "setTime" ELSE "emit"
    /\ (pc = "setTime" /\ ctx = "gen" /\ pc' # "raised") => (pc' = "emit" /\ ds' = ds)
    /\ pc = "emit" =>
         /\ pc' = "yielded" /\ count' = count + 1
         /\ the_time' = the_time /\ now' = now
         /\ packet'.dateTime = Round(the_time)
    /\ (pc \in {"parse", "setTime", "emit"} /\ ctx = "gen") =>
         (the_time' = the_time /\ now' = now)
    /\ (pc = "yielded" /\ pc' = "seek") =>
         /\ the_time' >= the_time /\ now' >= now
         /\ the_time' \in {the_time + loop_interval * Res, now'}

\* C17: an iteration that emits a record reassembles, parses, sets the
\* device time when the drift is outside the window, emits and paces, in
\* that order: the time-set comes before the record is handed over, the
\* record of that dataset is emitted in the same iteration, and the pacing
\* sleep and the update of the pacing clock come only once the consumer asks
\* for the next record.
C17_StepsInOrder == [][C17_IterationStep]_vars

\* a record handed over in an iteration that set the device time
C17_Witness == pc = "yielded" /\ ctx = "gen" /\ issued /\ verdict = "ok" /\ count >= 2

\* where read_usb_dataset stands, given the blocks it has received
C18_ReturnNeedsTerminator ==
    pc \in {"seek", "collect", "parse"} =>
        LET n == Len(received)
            s == FirstStart(received)
        IN  /\ pc = "parse" => (s < n /\ At(received[n], CountAt) \notin {49, 50, 51})
            /\ s > n => pc = "seek"
            /\ (s <= n /\ \A k \in (s + 1)..n : At(received[k], CountAt) \in {49, 50, 51})
                 => pc = "collect"

\* a step of read_usb_dataset that has not received its terminator
C18_WaitingStep ==
    pc \in {"seek", "collect"} =>
        /\ count' = count /\ hist' = hist /\ packet' = packet
        /\ \/ pc' \in {"seek", "collect", "parse"} /\ Len(received') = Len(received) + 1
           \/ pc' = "openPort" /\ ctx' = "recover" /\ recov'.cause # "none"

\* C18: read_usb_dataset returns only after a block with code 0x31 and a
\* later block with a code outside {0x31, 0x32, 0x33}; as long as the stream
\* has delivered no start code, or after the start code only codes of the
\* set, the call is still waiting and no record is emitted, and the only
\* step that leaves the call without a return is a request that raises a
\* USB error.
C18_NoReturnWithoutTerminator == []C18_ReturnNeedsTerminator /\ [][C18_WaitingStep]_vars

\* the whole stream is read, a start code and after it only codes of the
\* set: the call has not returned
C18_Witness ==
    /\ pc = "collect" /\ stream = <<>> /\ Len(received) >= 3
    /\ FirstStart(received) = 1

\* C19: with a host clock that never goes back and sleeps that last at
\* least as long as asked, the pacing clock is never ahead of the host clock,
\* during construction and in genLoopPackets, and of two consecutive records
\* the second carries a dateTime at least loop_interval above the first's,
\* whatever datasets were rejected, however slow the consumer was and
\* whatever recoveries came in between.
C19_PacingClockBehindHost ==
    /\ the_time <= now
    /\ \A i \in DOMAIN hist : hist[i].tt <= hist[i].at
    /\ \A i \in 1..(Len(hist) - 1) : hist[i + 1].dt >= hist[i].dt + loop_interval

\* two consecutive records, the second after a recovery and after the
\* consumer had been late
C19_Witness ==
    /\ Len(hist) >= 2
    /\ hist[Len(hist)].rec >= 0
    /\ hist[Len(hist)].dt > hist[Len(hist) - 1].dt + loop_interval

\* C20: catch-up bursts are bounded: the host time at emission k + 2 is at
\* least loop_interval after the host time at emission k, so no window
\* shorter than loop_interval holds more than two emissions.
C20_BurstBounded ==
    \A i \in 1..(Len(hist) - 2) : hist[i + 2].at >= hist[i].at + loop_interval * Res

\* three records, the first two at the same host time
C20_Witness ==
    /\ Len(hist) = 3
    /\ hist[2].at = hist[1].at
    /\ hist[3].at = hist[1].at + loop_interval * Res

=============================================================================
